---- MODULE Spec2Model ----
(***************************************************************************)
(* Model of write-fonts/src/tables/cff.rs: the owned CFF table `Cff`, its  *)
(* structured Top DICT view (get_top_dict_data / set_top_dict_data), the   *)
(* raw INDEX accessors, and serialization (write_into).                    *)
(*                                                                         *)
(* A byte is a number in 0..255, a byte string a sequence of bytes.  A     *)
(* Rust String is modelled by its UTF-8 bytes, so String equality is       *)
(* sequence equality.  A Result is a record with a status "ok", "err" or   *)
(* "panic" (an out-of-range slice or a checked arithmetic overflow).       *)
(***************************************************************************)
EXTENDS Integers, Sequences, FiniteSets, TLC

\* ------------------------------------------------------------------------
\* Bounds of the model
\* ------------------------------------------------------------------------
MaxStrings == 2     \* custom strings in the font that is loaded
MaxEntries == 2     \* entries in the first Top DICT of the font
MaxEdits == 2       \* assignments the caller makes to the TopDictData
MaxSets == 2        \* calls of set_top_dict_data
MaxTopDicts == 2    \* elements of the Top DICT INDEX of the font
MaxCount == 2       \* count field of an INDEX handed to the raw-slice accessors
MaxOffsetBytes == 4 \* bytes in the offsets field of such an INDEX
MaxDataBytes == 2   \* bytes in the data field of such an INDEX

\* ------------------------------------------------------------------------
\* Program constants
\* ------------------------------------------------------------------------
FirstCustomStringId == 391     \* custom strings start at 391
NewOffSize == 3                \* set_top_dict_data writes 3-byte offsets

\* ------------------------------------------------------------------------
\* Texts (UTF-8 bytes)
\* ------------------------------------------------------------------------
Txt_2_9 == <<50,46,57>>                                    \* "2.9"
\* "Noto is a trademark of Google LLC."
Txt_NotoNotice == <<78,111,116,111,32,105,115,32,97,32,116,114,97,100,101,109,97,114,107,32,111,102,32,71,111,111,103,108,101,32,76,76,67,46>>
\* "Copyright 2022 The Noto Project Authors"
Txt_NotoCopyright == <<67,111,112,121,114,105,103,104,116,32,50,48,50,50,32,84,104,101,32,78,111,116,111,32,80,114,111,106,101,99,116,32,65,117,116,104,111,114,115>>
\* "Noto Serif Display Regular"
Txt_NotoFullName == <<78,111,116,111,32,83,101,114,105,102,32,68,105,115,112,108,97,121,32,82,101,103,117,108,97,114>>
\* "Noto Serif Display"
Txt_NotoFamily == <<78,111,116,111,32,83,101,114,105,102,32,68,105,115,112,108,97,121>>
Txt_Version_1_23 == <<86,101,114,115,105,111,110,32,49,46,50,51>>  \* "Version 1.23"
\* "This is a Font Family Name"
Txt_NewFamily == <<84,104,105,115,32,105,115,32,97,32,70,111,110,116,32,70,97,109,105,108,121,32,78,97,109,101>>
Txt_Semibold == <<83,101,109,105,98,111,108,100>>          \* "Semibold"
Txt_notdef == <<46,110,111,116,100,101,102>>               \* ".notdef"
Txt_space == <<115,112,97,99,101>>                         \* "space"
Txt_exclam == <<101,120,99,108,97,109>>                    \* "exclam"
Txt_quotedbl == <<113,117,111,116,101,100,98,108>>         \* "quotedbl"
Txt_Other == <<88,233>>                                    \* "X" and the Latin-1 byte 0xE9
Txt_UnknownString == <<85,110,107,110,111,119,110,83,116,114,105,110,103,95>>    \* "UnknownString_"
Txt_StandardString == <<83,116,97,110,100,97,114,100,83,116,114,105,110,103,95>> \* "StandardString_"

\* ------------------------------------------------------------------------
\* Helpers on sequences and numbers
\* ------------------------------------------------------------------------
\* Rust's slice[a..b] with 0-based a, exclusive b (callers check a <= b <= len).
Slice(s, a, b) == SubSeq(s, a + 1, b)

RECURSIVE Concat(_)
Concat(ss) == IF ss = <<>> THEN <<>> ELSE Head(ss) \o Concat(Tail(ss))

\* u32::to_be_bytes / u16::to_be_bytes
BeBytes(v, w) == [k \in 1..w |-> (v \div (256 ^ (w - k))) % 256]

\* format!("{}", n) for an unsigned number: its decimal digits in ASCII.
RECURSIVE Decimal(_)
Decimal(n) == IF n < 10 THEN <<48 + n>> ELSE Decimal(n \div 10) \o <<48 + (n % 10)>>

\* The sequences over S of length at most n.
SeqsUpTo(S, n) == UNION {[1..k -> S] : k \in 0..n}

Ok(v) == [status |-> "ok", val |-> v]
Err == [status |-> "err", val |-> <<>>]
Panic == [status |-> "panic", val |-> <<>>]

\* ------------------------------------------------------------------------
\* Conversions between bytes and Strings
\* ------------------------------------------------------------------------
IsCont(s, i) == i <= Len(s) /\ s[i] >= 128 /\ s[i] <= 191

\* First step of core::str::Utf8Chunks at position i: <<"ok", n>> when a valid
\* character of n bytes starts at i, <<"bad", n>> when the maximal invalid
\* prefix there has n bytes.
Utf8Step(s, i) ==
    LET b == s[i]
        second(lo, hi) == i + 1 <= Len(s) /\ s[i + 1] >= lo /\ s[i + 1] <= hi
    IN  IF b < 128 THEN <<"ok", 1>>
        ELSE IF b >= 194 /\ b <= 223 THEN
            IF IsCont(s, i + 1) THEN <<"ok", 2>> ELSE <<"bad", 1>>
        ELSE IF b >= 224 /\ b <= 239 THEN
            LET lo == IF b = 224 THEN 160 ELSE 128
                hi == IF b = 237 THEN 159 ELSE 191
            IN  IF ~second(lo, hi) THEN <<"bad", 1>>
                ELSE IF ~IsCont(s, i + 2) THEN <<"bad", 2>>
                ELSE <<"ok", 3>>
        ELSE IF b >= 240 /\ b <= 244 THEN
            LET lo == IF b = 240 THEN 144 ELSE 128
                hi == IF b = 244 THEN 143 ELSE 191
            IN  IF ~second(lo, hi) THEN <<"bad", 1>>
                ELSE IF ~IsCont(s, i + 2) THEN <<"bad", 2>>
                ELSE IF ~IsCont(s, i + 3) THEN <<"bad", 3>>
                ELSE <<"ok", 4>>
        ELSE <<"bad", 1>>

\* String::from_utf8_lossy(bytes).to_string(): valid UTF-8 is kept, every maximal
\* invalid prefix becomes U+FFFD (EF BF BD).
RECURSIVE Utf8LossyFrom(_, _)
Utf8LossyFrom(s, i) ==
    IF i > Len(s) THEN <<>>
    ELSE LET st == Utf8Step(s, i)
         IN  (IF st[1] = "ok" THEN SubSeq(s, i, i + st[2] - 1) ELSE <<239, 191, 189>>)
                 \o Utf8LossyFrom(s, i + st[2])

FromUtf8Lossy(bytes) == Utf8LossyFrom(bytes, 1)

\* Latin1String::to_string(): every byte is one char U+0000..U+00FF.
RECURSIVE Latin1ToString(_)
Latin1ToString(bytes) ==
    IF bytes = <<>> THEN <<>>
    ELSE LET b == Head(bytes)
         IN  (IF b < 128 THEN <<b>> ELSE <<192 + (b \div 64), 128 + (b % 64)>>)
                 \o Latin1ToString(Tail(bytes))

\* ------------------------------------------------------------------------
\* INDEX
\* ------------------------------------------------------------------------
\* Index1::new(count, off_size, offsets, data)
Index1New(count, off_size, offsets, data) ==
    [count |-> count, off_size |-> off_size, offsets |-> offsets, data |-> data]

\* read_offset with the first byte least significant.
read_offset_LittleEndian(bytes, off_size) ==
    IF off_size \in 1..4 /\ Len(bytes) < off_size THEN Panic
    ELSE IF off_size = 1 THEN Ok(bytes[1])
    ELSE IF off_size = 2 THEN Ok(bytes[2] * 256 + bytes[1])
    ELSE IF off_size = 3 THEN Ok(bytes[3] * 65536 + bytes[2] * 256 + bytes[1])
    ELSE IF off_size = 4 THEN
        Ok(bytes[4] * 16777216 + bytes[3] * 65536 + bytes[2] * 256 + bytes[1])
    ELSE Err

\* fn read_offset(bytes: &[u8], off_size: u8)
read_offset(bytes, off_size) ==
    IF off_size \in 1..4 /\ Len(bytes) < off_size THEN Panic
    ELSE IF off_size = 1 THEN Ok(bytes[1])
    ELSE IF off_size = 2 THEN Ok(bytes[1] * 256 + bytes[2])
    ELSE IF off_size = 3 THEN Ok(bytes[1] * 65536 + bytes[2] * 256 + bytes[3])
    ELSE IF off_size = 4 THEN
        Ok(bytes[1] * 16777216 + bytes[2] * 65536 + bytes[3] * 256 + bytes[4])
    ELSE Err

\* The shared body with the index checked against count + 1.
IndexElementBytes_IndexCheckOffByOne(ix, index) ==
    IF index > ix.count THEN Err
    ELSE IF ix.off_size = 0 \/ ix.off_size > 4 THEN Err
    ELSE LET off_size == ix.off_size
             start_offset_pos == index * off_size
             end_offset_pos == (index + 1) * off_size
         IN  IF end_offset_pos > Len(ix.offsets) THEN Err
             ELSE IF end_offset_pos + off_size > Len(ix.offsets) THEN Panic
             ELSE LET start_offset ==
                          read_offset(Slice(ix.offsets, start_offset_pos,
                                            start_offset_pos + off_size), off_size)
                      end_offset ==
                          read_offset(Slice(ix.offsets, end_offset_pos,
                                            end_offset_pos + off_size), off_size)
                  IN  IF start_offset.status # "ok" THEN start_offset
                      ELSE IF end_offset.status # "ok" THEN end_offset
                      ELSE IF start_offset.val >= end_offset.val
                              \/ end_offset.val > Len(ix.data) + 1
                          THEN Err
                      ELSE IF start_offset.val = 0 THEN Panic
                      ELSE Ok(Slice(ix.data, start_offset.val - 1, end_offset.val - 1))

\* The body shared by get_top_dict_bytes and get_string_bytes.
IndexElementBytes(ix, index) ==
    IF index >= ix.count THEN Err
    ELSE IF ix.off_size = 0 \/ ix.off_size > 4 THEN Err
    ELSE LET off_size == ix.off_size
             start_offset_pos == index * off_size
             end_offset_pos == (index + 1) * off_size
         IN  IF end_offset_pos > Len(ix.offsets) THEN Err
             ELSE IF end_offset_pos + off_size > Len(ix.offsets) THEN Panic
             ELSE LET start_offset ==
                          read_offset(Slice(ix.offsets, start_offset_pos,
                                            start_offset_pos + off_size), off_size)
                      end_offset ==
                          read_offset(Slice(ix.offsets, end_offset_pos,
                                            end_offset_pos + off_size), off_size)
                  IN  IF start_offset.status # "ok" THEN start_offset
                      ELSE IF end_offset.status # "ok" THEN end_offset
                      ELSE IF start_offset.val >= end_offset.val
                              \/ end_offset.val > Len(ix.data) + 1
                          THEN Err
                      ELSE IF start_offset.val = 0 THEN Panic
                      ELSE Ok(Slice(ix.data, start_offset.val - 1, end_offset.val - 1))

\* fn get_top_dict_bytes(&self, index: usize)
get_top_dict_bytes(self, index) == IndexElementBytes(self.top_dicts, index)

\* fn get_string_bytes(&self, index: usize)
get_string_bytes(self, index) == IndexElementBytes(self.strings, index)

\* ------------------------------------------------------------------------
\* The fixed string tables get_top_dict_data resolves against
\* ------------------------------------------------------------------------
\* The standard strings, abridged to the ids the inputs use (the table has 391
\* entries; 390 is its last one).
StandardStringIds == {0, 1, 2, 3, 390}
StandardString(id) ==
    CASE id = 0 -> Txt_notdef
      [] id = 1 -> Txt_space
      [] id = 2 -> Txt_exclam
      [] id = 3 -> Txt_quotedbl
      [] id = 390 -> Txt_Semibold

\* The custom strings of font_test_data::NOTO_SERIF_DISPLAY_TRIMMED, which
\* get_top_dict_data parses on every call: ids 391..395.
NotoStrings ==
    <<Txt_2_9, Txt_NotoNotice, Txt_NotoCopyright, Txt_NotoFullName, Txt_NotoFamily>>

\* read_fonts Cff::string(id) on that font: Some(Latin1String) or None.
NotoCffString(id) ==
    IF id < FirstCustomStringId THEN Ok(StandardString(id))
    ELSE IF id - FirstCustomStringId < Len(NotoStrings)
        THEN Ok(NotoStrings[id - FirstCustomStringId + 1])
    ELSE Err

\* ------------------------------------------------------------------------
\* DICT entries (read_fonts::tables::postscript::dict)
\* ------------------------------------------------------------------------
\* An entry is [op |-> name of the Entry variant, args |-> its operands].
StringOps == {"Version", "Notice", "FullName", "FamilyName", "Weight", "Copyright"}

\* The Entry variants whose operand is a StringId.
StringIdOps == StringOps \cup {"FontName"}

\* One-byte operators and 12-escaped operators: the Entry variant, or "" for a
\* code the model does not know.
OperatorName(b) ==
    CASE b = 0 -> "Version"
      [] b = 1 -> "Notice"
      [] b = 2 -> "FullName"
      [] b = 3 -> "FamilyName"
      [] b = 4 -> "Weight"
      [] b = 5 -> "FontBbox"
      [] b = 13 -> "UniqueId"
      [] b = 15 -> "Charset"
      [] b = 16 -> "Encoding"
      [] b = 17 -> "CharstringsOffset"
      [] b = 18 -> "PrivateDictRange"
      [] b = 24 -> "VariationStoreOffset"
      [] OTHER -> ""

EscapedOperatorName(b) ==
    CASE b = 0 -> "Copyright"
      [] b = 1 -> "IsFixedPitch"
      [] b = 2 -> "ItalicAngle"
      [] b = 3 -> "UnderlinePosition"
      [] b = 4 -> "UnderlineThickness"
      [] b = 5 -> "PaintType"
      [] b = 6 -> "CharstringType"
      [] b = 7 -> "FontMatrix"
      [] b = 8 -> "StrokeWidth"
      [] b = 36 -> "FdArrayOffset"
      [] b = 37 -> "FdSelectOffset"
      [] b = 38 -> "FontName"
      [] OTHER -> ""

OperandCount(op) ==
    CASE op = "FontBbox" -> 4
      [] op = "FontMatrix" -> 6
      [] op = "PrivateDictRange" -> 2
      [] OTHER -> 1

\* StringId::from(i32): the value cast to u16.
StringIdFrom(v) == v % 65536

\* Entry::parse: the operands an operator takes from the stack.  IsFixedPitch
\* holds a bool (operand != 0); the number-valued entries (Fixed) hold the
\* value of their integer operands.
ParseEntry(op, stack) ==
    IF Len(stack) < OperandCount(op) THEN Err
    ELSE IF op \in StringIdOps
        THEN Ok([op |-> op, args |-> <<StringIdFrom(stack[Len(stack)])>>])
    ELSE IF op = "IsFixedPitch"
        THEN Ok([op |-> op, args |-> <<stack[Len(stack)] # 0>>])
    ELSE IF OperandCount(op) = 1
        THEN Ok([op |-> op, args |-> <<stack[Len(stack)]>>])
    ELSE Ok([op |-> op, args |-> SubSeq(stack, 1, OperandCount(op))])

\* dict::entries(bytes, None).collect::<Result<Vec<_>, _>>(): integer operands in
\* their 1-, 2- and 3-byte encodings, followed by an operator.
RECURSIVE DictEntriesFrom(_, _, _, _)
DictEntriesFrom(bytes, i, stack, acc) ==
    IF i > Len(bytes) THEN Ok(acc)
    ELSE LET b0 == bytes[i]
             more(n) == i + n <= Len(bytes)
             operator(op, next) ==
                 IF op = "" THEN Err
                 ELSE LET e == ParseEntry(op, stack)
                      IN  IF e.status # "ok" THEN Err
                          ELSE DictEntriesFrom(bytes, next, <<>>, Append(acc, e.val))
         IN  IF b0 >= 32 /\ b0 <= 246
                 THEN DictEntriesFrom(bytes, i + 1, Append(stack, b0 - 139), acc)
             ELSE IF b0 >= 247 /\ b0 <= 250 THEN
                 IF ~more(1) THEN Err
                 ELSE DictEntriesFrom(bytes, i + 2,
                          Append(stack, (b0 - 247) * 256 + bytes[i + 1] + 108), acc)
             ELSE IF b0 >= 251 /\ b0 <= 254 THEN
                 IF ~more(1) THEN Err
                 ELSE DictEntriesFrom(bytes, i + 2,
                          Append(stack, 0 - (b0 - 251) * 256 - bytes[i + 1] - 108), acc)
             ELSE IF b0 = 28 THEN
                 IF ~more(2) THEN Err
                 ELSE LET u == bytes[i + 1] * 256 + bytes[i + 2]
                      IN  DictEntriesFrom(bytes, i + 3,
                              Append(stack, IF u >= 32768 THEN u - 65536 ELSE u), acc)
             ELSE IF b0 = 12 THEN
                 IF ~more(1) THEN Err
                 ELSE operator(EscapedOperatorName(bytes[i + 1]), i + 2)
             ELSE IF b0 <= 24 THEN operator(OperatorName(b0), i + 1)
             ELSE Err

DictEntries(bytes) == DictEntriesFrom(bytes, 1, <<>>, <<>>)

\* ------------------------------------------------------------------------
\* TopDictData
\* ------------------------------------------------------------------------
None == [some |-> FALSE, val |-> <<>>]
Some(v) == [some |-> TRUE, val |-> v]

\* The named fields in the order set_top_dict_data appends them.
StringFields == <<"version", "notice", "full_name", "family_name", "weight", "copyright">>

FieldOfOp(op) ==
    CASE op = "Version" -> "version"
      [] op = "Notice" -> "notice"
      [] op = "FullName" -> "full_name"
      [] op = "FamilyName" -> "family_name"
      [] op = "Weight" -> "weight"
      [] op = "Copyright" -> "copyright"

\* TopDictData::new(); string_id_to_string is a function from StringIds to Strings.
TopDictDataNew ==
    [version |-> None, notice |-> None, full_name |-> None, family_name |-> None,
     weight |-> None, copyright |-> None, raw_entries |-> <<>>,
     string_id_to_string |-> <<>>]

\* The loop over the decoded entries with raw_entries filled from the front.
RECURSIVE ExtractEntries_RawPrepended(_, _)
ExtractEntries_RawPrepended(entries, top_dict_data) ==
    IF entries = <<>> THEN top_dict_data
    ELSE LET entry == Head(entries)
         IN  IF entry.op \in StringOps THEN
                 LET string_id == entry.args[1]
                     found == NotoCffString(string_id)
                     string_val ==
                         IF found.status = "ok" THEN Latin1ToString(found.val)
                         ELSE Txt_UnknownString \o Decimal(string_id)
                 IN  ExtractEntries_RawPrepended(Tail(entries),
                         [top_dict_data EXCEPT
                             ![FieldOfOp(entry.op)] = Some(string_val),
                             !.string_id_to_string = (string_id :> string_val) @@ @])
             ELSE ExtractEntries_RawPrepended(Tail(entries),
                         [top_dict_data EXCEPT !.raw_entries = <<entry>> \o @])

\* The loop over the decoded entries in get_top_dict_data.
RECURSIVE ExtractEntries(_, _)
ExtractEntries(entries, top_dict_data) ==
    IF entries = <<>> THEN top_dict_data
    ELSE LET entry == Head(entries)
         IN  IF entry.op \in StringOps THEN
                 LET string_id == entry.args[1]
                     found == NotoCffString(string_id)
                     string_val ==
                         IF found.status = "ok" THEN Latin1ToString(found.val)
                         ELSE Txt_UnknownString \o Decimal(string_id)
                 IN  ExtractEntries(Tail(entries),
                         [top_dict_data EXCEPT
                             ![FieldOfOp(entry.op)] = Some(string_val),
                             !.string_id_to_string = (string_id :> string_val) @@ @])
             ELSE ExtractEntries(Tail(entries),
                         [top_dict_data EXCEPT !.raw_entries = Append(@, entry)])

\* get_top_dict_data that answers a decode error with an empty TopDictData.
get_top_dict_data_IgnoresDecodeErrors(self) ==
    IF self.top_dicts.count = 0 THEN Ok(TopDictDataNew)
    ELSE LET top_dict_bytes == get_top_dict_bytes(self, 0)
         IN  IF top_dict_bytes.status # "ok" THEN top_dict_bytes
             ELSE LET entries == DictEntries(top_dict_bytes.val)
                  IN  IF entries.status # "ok" THEN Ok(TopDictDataNew)
                      ELSE Ok(ExtractEntries(entries.val, TopDictDataNew))

\* get_top_dict_data that reads the last Top DICT instead of the first.
get_top_dict_data_LastTopDict(self) ==
    IF self.top_dicts.count = 0 THEN Ok(TopDictDataNew)
    ELSE LET top_dict_bytes == get_top_dict_bytes(self, self.top_dicts.count - 1)
         IN  IF top_dict_bytes.status # "ok" THEN top_dict_bytes
             ELSE LET entries == DictEntries(top_dict_bytes.val)
                  IN  IF entries.status # "ok" THEN Err
                      ELSE Ok(ExtractEntries(entries.val, TopDictDataNew))

\* pub fn get_top_dict_data(&self) -> Result<TopDictData, _>
get_top_dict_data(self) ==
    IF self.top_dicts.count = 0 THEN Ok(TopDictDataNew)
    ELSE LET top_dict_bytes == get_top_dict_bytes(self, 0)
         IN  IF top_dict_bytes.status # "ok" THEN top_dict_bytes
             ELSE LET entries == DictEntries(top_dict_bytes.val)
                  IN  IF entries.status # "ok" THEN Err
                      ELSE Ok(ExtractEntries(entries.val, TopDictDataNew))

\* The values of the HashMap string_id_to_string.
MapValues(m) == {m[k] : k \in DOMAIN m}

\* First loop of set_top_dict_data: existing_strings_to_keep, or the error of
\* the first element get_string_bytes rejects.
RECURSIVE ExistingStringsToKeep(_, _, _, _)
ExistingStringsToKeep(self, top_dict_data, i, kept) ==
    IF i >= self.strings.count THEN Ok(kept)
    ELSE LET string_data == get_string_bytes(self, i)
         IN  IF string_data.status # "ok" THEN string_data
             ELSE LET string_value == FromUtf8Lossy(string_data.val)
                      should_replace ==
                          string_value \in MapValues(top_dict_data.string_id_to_string)
                  IN  ExistingStringsToKeep(self, top_dict_data, i + 1,
                          IF should_replace THEN kept ELSE Append(kept, string_data.val))

\* updated_strings collected from copyright back to version.
RECURSIVE UpdatedStrings_ReverseOrder(_, _)
UpdatedStrings_ReverseOrder(top_dict_data, k) ==
    IF k > Len(StringFields) THEN <<>>
    ELSE LET f == top_dict_data[StringFields[k]]
         IN  UpdatedStrings_ReverseOrder(top_dict_data, k + 1)
                 \o (IF f.some THEN <<f.val>> ELSE <<>>)

\* updated_strings: the named fields that are Some, in the fixed order.
RECURSIVE UpdatedStrings(_, _)
UpdatedStrings(top_dict_data, k) ==
    IF k > Len(StringFields) THEN <<>>
    ELSE LET f == top_dict_data[StringFields[k]]
         IN  (IF f.some THEN <<f.val>> ELSE <<>>) \o UpdatedStrings(top_dict_data, k + 1)

\* new_offsets: 1, then the running end offset of every string, each as the low
\* three bytes of a u32 (to_be_bytes()[1..]).
RECURSIVE NewOffsets(_, _)
NewOffsets(strs, current_offset) ==
    BeBytes(current_offset, NewOffSize)
        \o (IF strs = <<>> THEN <<>>
            ELSE NewOffsets(Tail(strs), current_offset + Len(Head(strs))))

\* total_strings as u16.  The usize subtraction underflows when the map holds
\* more ids than count + updated: a panic with overflow checks (debug builds),
\* a wrap without (release builds); the wrapped value is cast to u16.
TotalStrings(self, updated_strings, top_dict_data) ==
    self.strings.count + Len(updated_strings)
        - Cardinality(DOMAIN top_dict_data.string_id_to_string)

\* set_top_dict_data that also replaces global_subrs by an empty INDEX.
set_top_dict_data_DropsGlobalSubrs(self, top_dict_data, overflow_checks) ==
    IF self.top_dicts.count = 0 THEN [status |-> "err", val |-> self]
    ELSE LET kept == ExistingStringsToKeep(self, top_dict_data, 0, <<>>)
         IN  IF kept.status # "ok" THEN [status |-> kept.status, val |-> self]
             ELSE LET updated_strings == UpdatedStrings(top_dict_data, 1)
                      all_strings == kept.val \o updated_strings
                      total_strings ==
                          TotalStrings(self, updated_strings, top_dict_data)
                  IN  IF total_strings < 0 /\ overflow_checks
                          THEN [status |-> "panic", val |-> self]
                      ELSE Ok([self EXCEPT
                                  !.strings =
                                      Index1New(total_strings % 65536, NewOffSize,
                                                NewOffsets(all_strings, 1),
                                                Concat(all_strings)),
                                  !.global_subrs = Index1New(0, 0, <<>>, <<>>)])

\* set_top_dict_data that empties self.strings before it reads the existing
\* strings, so that a failed call leaves the table without strings.
set_top_dict_data_ClearsStringsFirst(self, top_dict_data, overflow_checks) ==
    IF self.top_dicts.count = 0 THEN [status |-> "err", val |-> self]
    ELSE LET kept == ExistingStringsToKeep(self, top_dict_data, 0, <<>>)
             cleared == [self EXCEPT !.strings = Index1New(0, 0, <<>>, <<>>)]
         IN  IF kept.status # "ok" THEN [status |-> kept.status, val |-> cleared]
             ELSE LET updated_strings == UpdatedStrings(top_dict_data, 1)
                      all_strings == kept.val \o updated_strings
                      total_strings ==
                          TotalStrings(self, updated_strings, top_dict_data)
                  IN  IF total_strings < 0 /\ overflow_checks
                          THEN [status |-> "panic", val |-> cleared]
                      ELSE Ok([self EXCEPT !.strings =
                                  Index1New(total_strings % 65536, NewOffSize,
                                            NewOffsets(all_strings, 1),
                                            Concat(all_strings))])

\* pub fn set_top_dict_data(&mut self, top_dict_data: &TopDictData) -> Result<(), _>
\* The value of the result is self after the call: self.strings is assigned
\* once, after the last `?` and after total_strings is computed, so an Err and
\* a panic both carry self as it was.
set_top_dict_data(self, top_dict_data, overflow_checks) ==
    IF self.top_dicts.count = 0 THEN [status |-> "err", val |-> self]
    ELSE LET kept == ExistingStringsToKeep(self, top_dict_data, 0, <<>>)
         IN  IF kept.status # "ok" THEN [status |-> kept.status, val |-> self]
             ELSE LET updated_strings == UpdatedStrings(top_dict_data, 1)
                      all_strings == kept.val \o updated_strings
                      all_string_data == Concat(all_strings)
                      total_strings ==
                          TotalStrings(self, updated_strings, top_dict_data)
                      new_offsets == NewOffsets(all_strings, 1)
                  IN  IF total_strings < 0 /\ overflow_checks
                          THEN [status |-> "panic", val |-> self]
                      ELSE Ok([self EXCEPT !.strings =
                                  Index1New(total_strings % 65536, NewOffSize,
                                            new_offsets, all_string_data)])

\* resolve_string with the element index taken modulo the number of strings.
resolve_string_IndexWraps(self, string_id) ==
    LET id == string_id
    IN  IF id < FirstCustomStringId THEN
            CASE id = 0 -> Ok(Txt_notdef)
              [] id = 1 -> Ok(Txt_space)
              [] id = 2 -> Ok(Txt_exclam)
              [] id = 3 -> Ok(Txt_quotedbl)
              [] OTHER -> Ok(Txt_StandardString \o Decimal(id))
        ELSE LET index == IF self.strings.count = 0 THEN id - FirstCustomStringId
                          ELSE (id - FirstCustomStringId) % self.strings.count
                 bytes == get_string_bytes(self, index)
             IN  IF bytes.status # "ok" THEN bytes
                 ELSE Ok(FromUtf8Lossy(bytes.val))

\* fn resolve_string(&self, string_id: StringId) -> Result<String, _>
resolve_string(self, string_id) ==
    LET id == string_id
    IN  IF id < FirstCustomStringId THEN
            CASE id = 0 -> Ok(Txt_notdef)
              [] id = 1 -> Ok(Txt_space)
              [] id = 2 -> Ok(Txt_exclam)
              [] id = 3 -> Ok(Txt_quotedbl)
              [] OTHER -> Ok(Txt_StandardString \o Decimal(id))
        ELSE LET bytes == get_string_bytes(self, id - FirstCustomStringId)
             IN  IF bytes.status # "ok" THEN bytes
                 ELSE Ok(FromUtf8Lossy(bytes.val))

\* ------------------------------------------------------------------------
\* Binary layout: serialization and parsing
\* ------------------------------------------------------------------------
\* An INDEX without elements: only the count field.
EmptyIndex == Index1New(0, 0, <<>>, <<>>)

\* Index1::write_into: count, then, if count is not zero, off_size, the offset
\* array and the data.
SerializeIndex(ix) ==
    IF ix.count = 0 THEN <<0, 0>>
    ELSE BeBytes(ix.count, 2) \o <<ix.off_size>> \o ix.offsets \o ix.data

\* CffHeader::write_into
SerializeHeader(h) == <<h.major, h.minor, h.hdr_size, h.off_size>>

\* write_into with the Strings INDEX written before the Top DICT INDEX.
WriteInto_StringsBeforeTopDicts(self) ==
    SerializeHeader(self.header)
        \o SerializeIndex(self.names)
        \o SerializeIndex(self.strings)
        \o SerializeIndex(self.top_dicts)
        \o SerializeIndex(self.global_subrs)

\* write_into with the Global Subr INDEX written before the Strings INDEX.
WriteInto_GlobalSubrsBeforeStrings(self) ==
    SerializeHeader(self.header)
        \o SerializeIndex(self.names)
        \o SerializeIndex(self.top_dicts)
        \o SerializeIndex(self.global_subrs)
        \o SerializeIndex(self.strings)

\* impl FontWrite for Cff: write_into
WriteInto(self) ==
    SerializeHeader(self.header)
        \o SerializeIndex(self.names)
        \o SerializeIndex(self.top_dicts)
        \o SerializeIndex(self.strings)
        \o SerializeIndex(self.global_subrs)

\* The k-th (0-based) offset of a parsed INDEX.
OffsetAt(ix, k) ==
    read_offset(Slice(ix.offsets, k * ix.off_size, (k + 1) * ix.off_size), ix.off_size).val

\* Parsing one INDEX at position pos (0-based) of bytes: the INDEX and the
\* position after it.
ParseIndex(bytes, pos) ==
    IF pos + 2 > Len(bytes) THEN Err
    ELSE LET count == bytes[pos + 1] * 256 + bytes[pos + 2]
         IN  IF count = 0 THEN Ok([index |-> EmptyIndex, next |-> pos + 2])
             ELSE IF pos + 3 > Len(bytes) THEN Err
             ELSE LET off_size == bytes[pos + 3]
                      offsets_end == pos + 3 + (count + 1) * off_size
                  IN  IF off_size \notin 1..4 THEN Err
                      ELSE IF offsets_end > Len(bytes) THEN Err
                      ELSE LET offsets == Slice(bytes, pos + 3, offsets_end)
                               ix0 == Index1New(count, off_size, offsets, <<>>)
                               data_len == OffsetAt(ix0, count) - 1
                           IN  IF OffsetAt(ix0, 0) # 1 THEN Err
                               ELSE IF \E k \in 0..(count - 1) :
                                           OffsetAt(ix0, k) > OffsetAt(ix0, k + 1)
                                   THEN Err
                               ELSE IF offsets_end + data_len > Len(bytes) THEN Err
                               ELSE Ok([index |-> Index1New(count, off_size, offsets,
                                            Slice(bytes, offsets_end, offsets_end + data_len)),
                                        next |-> offsets_end + data_len])

\* read_fonts Cff::read: the header, then the four INDEXes in their fixed order.
ParseCff(bytes) ==
    IF Len(bytes) < 4 \/ bytes[3] < 4 \/ bytes[3] > Len(bytes) THEN Err
    ELSE LET header == [major |-> bytes[1], minor |-> bytes[2],
                        hdr_size |-> bytes[3], off_size |-> bytes[4]]
             names == ParseIndex(bytes, header.hdr_size)
         IN  IF names.status # "ok" THEN Err
             ELSE LET top_dicts == ParseIndex(bytes, names.val.next)
                  IN  IF top_dicts.status # "ok" THEN Err
                      ELSE LET strings == ParseIndex(bytes, top_dicts.val.next)
                           IN  IF strings.status # "ok" THEN Err
                               ELSE LET global_subrs == ParseIndex(bytes, strings.val.next)
                                    IN  IF global_subrs.status # "ok" THEN Err
                                        ELSE Ok([header |-> header,
                                                 names |-> names.val.index,
                                                 top_dicts |-> top_dicts.val.index,
                                                 strings |-> strings.val.index,
                                                 global_subrs |-> global_subrs.val.index])

\* read_fonts Index1::get(i): element i of a parsed INDEX.
IndexGet(ix, i) ==
    IF i >= ix.count THEN Err
    ELSE LET start == OffsetAt(ix, i)
             end == OffsetAt(ix, i + 1)
         IN  IF start < 1 \/ end < start \/ end - 1 > Len(ix.data) THEN Err
             ELSE Ok(Slice(ix.data, start - 1, end - 1))

\* read_fonts Cff::string(id) on a parsed table.
CffString(table, id) ==
    IF id < FirstCustomStringId THEN Ok(StandardString(id))
    ELSE IndexGet(table.strings, id - FirstCustomStringId)

\* impl FromObjRef<read_fonts::tables::cff::Cff> for Cff: from_obj_ref
FromObjRef(obj) ==
    [header |-> obj.header,
     names |-> obj.names,
     top_dicts |-> obj.top_dicts,
     strings |-> obj.strings,
     global_subrs |-> obj.global_subrs]

\* ------------------------------------------------------------------------
\* The fonts the model loads
\* ------------------------------------------------------------------------
\* DICT encoding of an integer operand (the shortest form).
EncodeInt(n) ==
    IF n >= -107 /\ n <= 107 THEN <<n + 139>>
    ELSE IF n >= 108 /\ n <= 1131 THEN <<247 + ((n - 108) \div 256), (n - 108) % 256>>
    ELSE IF n >= -1131 /\ n <= -108
        THEN <<251 + ((0 - n - 108) \div 256), (0 - n - 108) % 256>>
    ELSE <<28>> \o BeBytes(n % 65536, 2)

OperatorBytes(op) ==
    CASE op = "Version" -> <<0>>
      [] op = "Notice" -> <<1>>
      [] op = "FullName" -> <<2>>
      [] op = "FamilyName" -> <<3>>
      [] op = "Weight" -> <<4>>
      [] op = "FontBbox" -> <<5>>
      [] op = "UniqueId" -> <<13>>
      [] op = "Charset" -> <<15>>
      [] op = "Encoding" -> <<16>>
      [] op = "CharstringsOffset" -> <<17>>
      [] op = "PrivateDictRange" -> <<18>>
      [] op = "VariationStoreOffset" -> <<24>>
      [] op = "Copyright" -> <<12, 0>>
      [] op = "IsFixedPitch" -> <<12, 1>>
      [] op = "ItalicAngle" -> <<12, 2>>
      [] op = "UnderlinePosition" -> <<12, 3>>
      [] op = "UnderlineThickness" -> <<12, 4>>
      [] op = "PaintType" -> <<12, 5>>
      [] op = "CharstringType" -> <<12, 6>>
      [] op = "FontMatrix" -> <<12, 7>>
      [] op = "StrokeWidth" -> <<12, 8>>
      [] op = "FdArrayOffset" -> <<12, 36>>
      [] op = "FdSelectOffset" -> <<12, 37>>
      [] op = "FontName" -> <<12, 38>>

EncodeEntry(e) ==
    Concat([k \in 1..Len(e.args) |-> EncodeInt(e.args[k])]) \o OperatorBytes(e.op)

EncodeEntries(es) == Concat([k \in 1..Len(es) |-> EncodeEntry(es[k])])

\* The end offsets of items, starting from offset 1, each in off_size bytes.
RECURSIVE EncodeOffsets(_, _, _)
EncodeOffsets(items, current_offset, off_size) ==
    BeBytes(current_offset, off_size)
        \o (IF items = <<>> THEN <<>>
            ELSE EncodeOffsets(Tail(items), current_offset + Len(Head(items)), off_size))

\* A well-formed INDEX holding items.
MakeIndex(items, off_size) ==
    IF items = <<>> THEN EmptyIndex
    ELSE Index1New(Len(items), off_size, EncodeOffsets(items, 1, off_size), Concat(items))

InputHeader == [major |-> 1, minor |-> 0, hdr_size |-> 4, off_size |-> 1]
InputName == <<70>>            \* the font name "F"
InputSubr == <<14>>            \* one global subroutine: endchar

InputStringIds == {390, 391, 396}
InputEntries ==
    {[op |-> o, args |-> <<id>>] : o \in {"Version", "FamilyName"}, id \in InputStringIds}
        \cup {[op |-> "CharstringsOffset", args |-> <<521>>],
              [op |-> "FontName", args |-> <<391>>]}
InputTexts == {Txt_2_9, Txt_Other, <<>>}

\* Top DICT bytes that do not decode: a Version operator without operand, and
\* a Version entry followed by a 3-byte integer cut after its second byte.
MalformedDicts ==
    {<<0>>, EncodeEntry([op |-> "Version", args |-> <<391>>]) \o <<28, 1>>}

\* A Top DICT with the same operator twice, with different operands.
DuplicateDicts ==
    {EncodeEntries(<<[op |-> "CharstringsOffset", args |-> <<521>>],
                     [op |-> "CharstringsOffset", args |-> <<77>>]>>)}

\* The Top DICTs of further fonts of a FontSet.
OtherTopDicts ==
    {EncodeEntries(<<[op |-> "Version", args |-> <<396>>]>>),
     EncodeEntries(<<[op |-> "FamilyName", args |-> <<391>>],
                     [op |-> "CharstringsOffset", args |-> <<77>>]>>)}

\* A parsed table with the given Top DICTs (byte strings) and custom strings.
InputFont(top_dicts, strings) ==
    [header |-> InputHeader,
     names |-> MakeIndex(<<InputName>>, 1),
     top_dicts |-> MakeIndex(top_dicts, 2),
     strings |-> MakeIndex(strings, 1),
     global_subrs |-> MakeIndex(<<InputSubr>>, 1)]

InputFonts ==
    {InputFont(<<EncodeEntries(es)>>, ss) :
        es \in SeqsUpTo(InputEntries, MaxEntries), ss \in SeqsUpTo(InputTexts, MaxStrings)}
    \cup {InputFont(<<>>, ss) : ss \in SeqsUpTo(InputTexts, MaxStrings)}
    \cup {InputFont(<<d>>, ss) :
             d \in MalformedDicts \cup DuplicateDicts,
             ss \in SeqsUpTo(InputTexts, MaxStrings - 1)}
    \cup {InputFont(<<EncodeEntry(e)>> \o ds, ss) :
             e \in InputEntries,
             ds \in SeqsUpTo(OtherTopDicts, MaxTopDicts - 1) \ {<<>>},
             ss \in SeqsUpTo(InputTexts, MaxStrings - 1)}

\* The INDEXes handed to the raw-slice accessors: any count, off_size, offsets
\* bytes and data bytes (the fields of Index1 are public).
RawOffSizes == 0..5
RawOffsetBytes == 0..3
RawData == {SubSeq(<<7, 8, 9, 10>>, 1, n) : n \in 0..MaxDataBytes}
RawIndexes ==
    {Index1New(count, off_size, offsets, data) :
        count \in 0..MaxCount, off_size \in RawOffSizes,
        offsets \in SeqsUpTo(RawOffsetBytes, MaxOffsetBytes), data \in RawData}

\* The tables and StringIds resolve_string is called with: loaded Strings
\* INDEXes, and INDEXes with 1-byte offsets of any content.
ResolveFonts ==
    {InputFont(<<>>, ss) : ss \in SeqsUpTo(InputTexts, MaxStrings)}
    \cup {[InputFont(<<>>, <<>>) EXCEPT !.strings = ix] :
             ix \in {x \in RawIndexes : x.off_size = 1}}
ResolveStringIds ==
    StandardStringIds \cup (FirstCustomStringId..(FirstCustomStringId + MaxStrings))

\* The byte slices read_offset is called with.
ReadOffsetByteValues == {0, 1, 127, 255}
ReadOffsetInputs == SeqsUpTo(ReadOffsetByteValues, MaxOffsetBytes)

\* ------------------------------------------------------------------------
\* CFF2 (cff2.rs)
\* ------------------------------------------------------------------------
\* dict::entries(bytes, None) as the iterator yields it: one result per
\* operator or unreadable token.  A failed operator clears the operand stack
\* and the iteration goes on; a token cut off by the end of the bytes is the
\* last item.
RECURSIVE DictEntryResultsFrom(_, _, _, _)
DictEntryResultsFrom(bytes, i, stack, acc) ==
    IF i > Len(bytes) THEN acc
    ELSE LET b0 == bytes[i]
             more(n) == i + n <= Len(bytes)
             operator(op, next) ==
                 IF op = "" THEN DictEntryResultsFrom(bytes, next, stack, Append(acc, Err))
                 ELSE DictEntryResultsFrom(bytes, next, <<>>,
                          Append(acc, ParseEntry(op, stack)))
         IN  IF b0 >= 32 /\ b0 <= 246
                 THEN DictEntryResultsFrom(bytes, i + 1, Append(stack, b0 - 139), acc)
             ELSE IF b0 >= 247 /\ b0 <= 250 THEN
                 IF ~more(1) THEN Append(acc, Err)
                 ELSE DictEntryResultsFrom(bytes, i + 2,
                          Append(stack, (b0 - 247) * 256 + bytes[i + 1] + 108), acc)
             ELSE IF b0 >= 251 /\ b0 <= 254 THEN
                 IF ~more(1) THEN Append(acc, Err)
                 ELSE DictEntryResultsFrom(bytes, i + 2,
                          Append(stack, 0 - (b0 - 251) * 256 - bytes[i + 1] - 108), acc)
             ELSE IF b0 = 28 THEN
                 IF ~more(2) THEN Append(acc, Err)
                 ELSE LET u == bytes[i + 1] * 256 + bytes[i + 2]
                      IN  DictEntryResultsFrom(bytes, i + 3,
                              Append(stack, IF u >= 32768 THEN u - 65536 ELSE u), acc)
             ELSE IF b0 = 12 THEN
                 IF ~more(1) THEN Append(acc, Err)
                 ELSE operator(EscapedOperatorName(bytes[i + 1]), i + 2)
             ELSE IF b0 <= 24 THEN operator(OperatorName(b0), i + 1)
             ELSE DictEntryResultsFrom(bytes, i + 1, stack, Append(acc, Err))

DictEntryResults(bytes) == DictEntryResultsFrom(bytes, 1, <<>>, <<>>)

\* cff2::TopDictData::default()
Cff2TopDictDataDefault ==
    [version |-> None, notice |-> None, full_name |-> None, family_name |-> None,
     weight |-> None, font_bbox |-> None, charstrings_offset |-> None,
     variation_store_offset |-> None, fd_array_offset |-> None,
     fd_select_offset |-> None, copyright |-> None, is_fixed_pitch |-> None,
     italic_angle |-> None, underline_position |-> None,
     underline_thickness |-> None, paint_type |-> None, charstring_type |-> None,
     font_matrix |-> None, stroke_width |-> None, font_name |-> None]

\* The field a match arm of Cff2::from_obj_ref assigns, "" for the entries
\* of the default arm.
Cff2FieldOfOp(op) ==
    CASE op = "FontBbox" -> "font_bbox"
      [] op = "ItalicAngle" -> "italic_angle"
      [] op = "UnderlinePosition" -> "underline_position"
      [] op = "UnderlineThickness" -> "underline_thickness"
      [] op = "IsFixedPitch" -> "is_fixed_pitch"
      [] op = "PaintType" -> "paint_type"
      [] op = "CharstringType" -> "charstring_type"
      [] op = "FontMatrix" -> "font_matrix"
      [] op = "StrokeWidth" -> "stroke_width"
      [] op = "CharstringsOffset" -> "charstrings_offset"
      [] op = "VariationStoreOffset" -> "variation_store_offset"
      [] op = "FdArrayOffset" -> "fd_array_offset"
      [] op = "FdSelectOffset" -> "fd_select_offset"
      [] OTHER -> ""

\* The loop over the entries in Cff2::from_obj_ref: a failed item is passed
\* over (if let Ok(entry) = entry); each of the thirteen arms stores the
\* value of its entry (the array for FontBbox and FontMatrix, to_f32() of an
\* integer-valued Fixed being that integer), the default arm does nothing.
RECURSIVE Cff2ExtractEntries(_, _)
Cff2ExtractEntries(results, top_dict_data) ==
    IF results = <<>> THEN top_dict_data
    ELSE LET entry == Head(results)
             rest == Tail(results)
         IN  IF entry.status # "ok" THEN Cff2ExtractEntries(rest, top_dict_data)
             ELSE IF entry.val.op \in {"FontBbox", "FontMatrix"} THEN
                 Cff2ExtractEntries(rest,
                     [top_dict_data EXCEPT
                         ![Cff2FieldOfOp(entry.val.op)] = Some(entry.val.args)])
             ELSE IF Cff2FieldOfOp(entry.val.op) # "" THEN
                 Cff2ExtractEntries(rest,
                     [top_dict_data EXCEPT
                         ![Cff2FieldOfOp(entry.val.op)] = Some(entry.val.args[1])])
             ELSE Cff2ExtractEntries(rest, top_dict_data)

\* The global subroutines kept: the elements get(i) returns Ok for.
RECURSIVE Cff2GlobalSubrs(_, _)
Cff2GlobalSubrs(ix, i) ==
    IF i >= ix.count THEN <<>>
    ELSE (IF IndexGet(ix, i).status = "ok" THEN <<IndexGet(ix, i).val>> ELSE <<>>)
             \o Cff2GlobalSubrs(ix, i + 1)

\* impl FromObjRef<read_fonts::tables::cff2::Cff2> for Cff2: from_obj_ref
Cff2FromObjRef(obj) ==
    [header |-> obj.header,
     top_dict_data |->
         Cff2ExtractEntries(DictEntryResults(obj.top_dict_data), Cff2TopDictDataDefault),
     global_subrs |-> Cff2GlobalSubrs(obj.global_subrs, 0)]

\* Cff2::default()
Cff2Default ==
    [header |-> [major_version |-> 0, minor_version |-> 0, header_size |-> 0,
                 top_dict_length |-> 0],
     top_dict_data |-> Cff2TopDictDataDefault,
     global_subrs |-> <<>>]

\* The parsed CFF2 tables the model converts: Top DICT bytes put together from
\* well-formed entries, an operator without operand and a truncated operand;
\* Global Subr INDEXes, one with an end offset past its data.
Cff2DictPieces ==
    {EncodeEntry([op |-> "CharstringsOffset", args |-> <<521>>]),
     EncodeEntry([op |-> "VariationStoreOffset", args |-> <<16>>]),
     EncodeEntry([op |-> "FdArrayOffset", args |-> <<77>>]),
     EncodeEntry([op |-> "FontMatrix", args |-> <<1, 0, 0, 1, 0, 0>>]),
     EncodeEntry([op |-> "PaintType", args |-> <<2>>]),
     EncodeInt(1) \o OperatorBytes("IsFixedPitch"),
     EncodeEntry([op |-> "Weight", args |-> <<390>>]),
     <<17>>,
     <<28, 1>>}
Cff2SubrIndexes ==
    {EmptyIndex,
     MakeIndex(<<InputSubr>>, 1),
     MakeIndex(<<InputSubr, <<11>>>>, 1),
     Index1New(2, 1, <<1, 2, 9>>, <<14, 11>>)}
InputCff2s ==
    {[header |-> [major_version |-> 2, minor_version |-> 0, header_size |-> 5,
                  top_dict_length |-> Len(Concat(ps))],
      top_dict_data |-> Concat(ps),
      global_subrs |-> ix] :
        ps \in SeqsUpTo(Cff2DictPieces, MaxEntries), ix \in Cff2SubrIndexes}

\* What the caller assigns to a named field of the TopDictData.
EditFields == {"version", "family_name"}
EditValues(f) ==
    {None, Some(Txt_2_9),
     Some(IF f = "version" THEN Txt_Version_1_23 ELSE Txt_NewFamily)}

\* ------------------------------------------------------------------------
\* State
\* ------------------------------------------------------------------------
VARIABLES
    orig,      \* the parsed table the Cff was converted from
    cff,       \* the owned Cff
    tdd,       \* the TopDictData the caller holds: [held, val]
    pre,       \* the Cff before the last call of set_top_dict_data
    last,      \* the last operation and its result: [op, status]
    nedits,    \* assignments made to the TopDictData
    nsets,     \* calls of set_top_dict_data
    wire,      \* the bytes written by write_into, <<>> before it
    ret        \* the last call of a raw-slice accessor, of resolve_string or of
               \* read_offset: its argument(s) and its result res

vars == <<orig, cff, tdd, pre, last, nedits, nsets, wire, ret>>

NoCall == [index |-> 0, res |-> Err]

Running == last.status # "panic" /\ last.op # "write_into"

Init ==
    /\ orig \in InputFonts
    /\ cff = FromObjRef(orig)
    /\ tdd = [held |-> FALSE, val |-> TopDictDataNew]
    /\ pre = FromObjRef(orig)
    /\ last = [op |-> "from_obj_ref", status |-> "ok"]
    /\ nedits = 0
    /\ nsets = 0
    /\ wire = <<>>
    /\ ret = NoCall

\* let d = cff.get_top_dict_data()
GetTopDictData ==
    /\ Running
    /\ ~tdd.held
    /\ LET r == get_top_dict_data(cff)
       IN  /\ tdd' = IF r.status = "ok"
                         THEN [held |-> TRUE, val |-> r.val]
                         ELSE tdd
           /\ last' = [op |-> "get_top_dict_data", status |-> r.status]
    /\ UNCHANGED <<orig, cff, pre, nedits, nsets, wire, ret>>

\* d.<field> = <value>
Edit ==
    /\ Running
    /\ tdd.held
    /\ nedits < MaxEdits
    /\ \E f \in EditFields : \E v \in EditValues(f) :
           tdd' = [tdd EXCEPT !.val[f] = v]
    /\ nedits' = nedits + 1
    /\ last' = [op |-> "edit", status |-> "ok"]
    /\ UNCHANGED <<orig, cff, pre, nsets, wire, ret>>

\* cff.set_top_dict_data(&d)
SetTopDictData ==
    /\ Running
    /\ tdd.held
    /\ nsets < MaxSets
    /\ \E overflow_checks \in BOOLEAN :
           LET r == set_top_dict_data(cff, tdd.val, overflow_checks)
           IN  /\ cff' = r.val
               /\ last' = [op |-> "set_top_dict_data", status |-> r.status]
    /\ pre' = cff
    /\ nsets' = nsets + 1
    /\ UNCHANGED <<orig, tdd, nedits, wire, ret>>

\* dump_table(&cff): write_into
Write ==
    /\ Running
    /\ wire' = WriteInto(cff)
    /\ last' = [op |-> "write_into", status |-> "ok"]
    /\ UNCHANGED <<orig, cff, tdd, pre, nedits, nsets, ret>>

Next ==
    \/ GetTopDictData
    \/ Edit
    \/ SetTopDictData
    \/ Write

Spec == Init /\ [][Next]_vars

\* The unmodified round trip alone: from_obj_ref, then write_into.
NextUnmodified == Write

SpecUnmodified == Init /\ [][NextUnmodified]_vars

\* Reading the structured view alone: from_obj_ref, then get_top_dict_data.
NextGet == GetTopDictData

SpecGet == Init /\ [][NextGet]_vars

\* The raw-slice accessors alone, on a Cff built with Cff::new from any INDEX
\* (the same INDEX as top_dicts and as strings).
InitAccessor ==
    /\ \E ix \in RawIndexes :
           orig = [InputFont(<<>>, <<>>) EXCEPT !.top_dicts = ix, !.strings = ix]
    /\ cff = orig
    /\ tdd = [held |-> FALSE, val |-> TopDictDataNew]
    /\ pre = orig
    /\ last = [op |-> "new", status |-> "ok"]
    /\ nedits = 0
    /\ nsets = 0
    /\ wire = <<>>
    /\ ret = NoCall

\* self.get_top_dict_bytes(index)
GetTopDictBytes ==
    /\ Running
    /\ \E index \in 0..MaxCount :
           LET r == get_top_dict_bytes(cff, index)
           IN  /\ ret' = [index |-> index, res |-> r]
               /\ last' = [op |-> "get_top_dict_bytes", status |-> r.status]
    /\ UNCHANGED <<orig, cff, tdd, pre, nedits, nsets, wire>>

\* self.get_string_bytes(index)
GetStringBytes ==
    /\ Running
    /\ \E index \in 0..MaxCount :
           LET r == get_string_bytes(cff, index)
           IN  /\ ret' = [index |-> index, res |-> r]
               /\ last' = [op |-> "get_string_bytes", status |-> r.status]
    /\ UNCHANGED <<orig, cff, tdd, pre, nedits, nsets, wire>>

NextAccessor ==
    \/ GetTopDictBytes
    \/ GetStringBytes

SpecAccessor == InitAccessor /\ [][NextAccessor]_vars

\* The conversion of a parsed CFF2 table: cff holds the owned Cff2.
InitCff2 ==
    /\ orig \in InputCff2s
    /\ cff = Cff2Default
    /\ tdd = [held |-> FALSE, val |-> TopDictDataNew]
    /\ pre = Cff2Default
    /\ last = [op |-> "read", status |-> "ok"]
    /\ nedits = 0
    /\ nsets = 0
    /\ wire = <<>>
    /\ ret = NoCall

\* let cff2: Cff2 = cff2_read.to_owned_table()
ConvertCff2 ==
    /\ last.op = "read"
    /\ cff' = Cff2FromObjRef(orig)
    /\ last' = [op |-> "cff2_from_obj_ref", status |-> "ok"]
    /\ UNCHANGED <<orig, tdd, pre, nedits, nsets, wire, ret>>

NextCff2 == ConvertCff2

SpecCff2 == InitCff2 /\ [][NextCff2]_vars

\* read_offset alone.  A 4-byte value of 2^31 or more is beyond the integers
\* of the model checker, so with off_size 4 the first byte stays below 128.
InitReadOffset ==
    /\ orig = InputFont(<<>>, <<>>)
    /\ cff = FromObjRef(orig)
    /\ tdd = [held |-> FALSE, val |-> TopDictDataNew]
    /\ pre = FromObjRef(orig)
    /\ last = [op |-> "from_obj_ref", status |-> "ok"]
    /\ nedits = 0
    /\ nsets = 0
    /\ wire = <<>>
    /\ ret = NoCall

\* read_offset(bytes, off_size); the function keeps no state, so one call per
\* behaviour covers it.
ReadOffset ==
    /\ Running
    /\ last.op # "read_offset"
    /\ \E bytes \in ReadOffsetInputs : \E off_size \in RawOffSizes :
           /\ (off_size = 4 /\ Len(bytes) >= 4) => bytes[1] < 128
           /\ LET r == read_offset(bytes, off_size)
              IN  /\ ret' = [bytes |-> bytes, off_size |-> off_size, res |-> r]
                  /\ last' = [op |-> "read_offset", status |-> r.status]
    /\ UNCHANGED <<orig, cff, tdd, pre, nedits, nsets, wire>>

NextReadOffset == ReadOffset

SpecReadOffset == InitReadOffset /\ [][NextReadOffset]_vars

\* resolve_string alone.
InitResolve ==
    /\ orig \in ResolveFonts
    /\ cff = FromObjRef(orig)
    /\ tdd = [held |-> FALSE, val |-> TopDictDataNew]
    /\ pre = FromObjRef(orig)
    /\ last = [op |-> "from_obj_ref", status |-> "ok"]
    /\ nedits = 0
    /\ nsets = 0
    /\ wire = <<>>
    /\ ret = NoCall

\* self.resolve_string(string_id)
ResolveString ==
    /\ Running
    /\ \E string_id \in ResolveStringIds :
           LET r == resolve_string(cff, string_id)
           IN  /\ ret' = [index |-> string_id, res |-> r]
               /\ last' = [op |-> "resolve_string", status |-> r.status]
    /\ UNCHANGED <<orig, cff, tdd, pre, nedits, nsets, wire>>

NextResolve == ResolveString

SpecResolve == InitResolve /\ [][NextResolve]_vars

\* ------------------------------------------------------------------------
\* Notions the properties use
\* ------------------------------------------------------------------------
AfterSet == last.op = "set_top_dict_data"
AfterSetOk == AfterSet /\ last.status = "ok"
AfterGet == last.op = "get_top_dict_data"
AfterWrite == last.op = "write_into"

\* The decoded entries of the first Top DICT of a table, as a reader sees them.
FirstTopDictEntries(table) ==
    LET bytes == IndexGet(table.top_dicts, 0)
    IN  IF bytes.status # "ok" THEN Err ELSE DictEntries(bytes.val)

\* The entries of the first Top DICT, <<>> when there is none to decode.
EntriesOf(table) ==
    LET r == FirstTopDictEntries(table)
    IN  IF r.status = "ok" THEN r.val ELSE <<>>

\* The text a StringId resolves to against the table's own Strings INDEX.
ResolvedText(table, id) ==
    LET r == CffString(table, id)
    IN  IF r.status = "ok" THEN Ok(Latin1ToString(r.val)) ELSE Err

HasEntry(table, op) == \E k \in DOMAIN EntriesOf(table) : EntriesOf(table)[k].op = op

\* Every entry of the first Top DICT with operator op resolves to text.
EntriesResolveTo(table, op, text) ==
    \A k \in DOMAIN EntriesOf(table) :
        EntriesOf(table)[k].op = op
            => ResolvedText(table, EntriesOf(table)[k].args[1]) = Ok(text)

\* An INDEX that satisfies the invariants of the format.
ValidIndex(ix) ==
    /\ ix.off_size \in 1..4
    /\ Len(ix.offsets) = (ix.count + 1) * ix.off_size
    /\ OffsetAt(ix, 0) = 1
    /\ \A k \in 0..(ix.count - 1) : OffsetAt(ix, k) <= OffsetAt(ix, k + 1)
    /\ OffsetAt(ix, ix.count) - 1 = Len(ix.data)

\* ------------------------------------------------------------------------
\* Properties
\* ------------------------------------------------------------------------
\* C1: after d = get_top_dict_data(), assigning new texts to d.version and
\* d.family_name and calling set_top_dict_data(d), the Version and FamilyName
\* StringIds of the first Top DICT resolve, against the updated Strings INDEX,
\* to exactly the new texts.
C1_EditedTextsResolve ==
    (/\ AfterSetOk
     /\ nsets = 1
     /\ tdd.val.version = Some(Txt_Version_1_23)
     /\ tdd.val.family_name = Some(Txt_NewFamily)
     /\ HasEntry(cff, "Version")
     /\ HasEntry(cff, "FamilyName"))
        => /\ EntriesResolveTo(cff, "Version", Txt_Version_1_23)
           /\ EntriesResolveTo(cff, "FamilyName", Txt_NewFamily)

\* C2: the unmodified round trip.  Converting a parsed table with from_obj_ref,
\* writing it with write_into without any mutation and parsing the bytes again
\* gives the same header major/minor, the same element counts of the four
\* INDEXes, the same sequence of first-Top-DICT entries, and the same resolved
\* text for every StringId those entries reference (the six named string
\* operators and FontName).
C2_UnmodifiedRoundTrip ==
    (AfterWrite /\ nsets = 0)
        => LET r == ParseCff(wire)
           IN  /\ r.status = "ok"
               /\ r.val.header.major = orig.header.major
               /\ r.val.header.minor = orig.header.minor
               /\ r.val.names.count = orig.names.count
               /\ r.val.top_dicts.count = orig.top_dicts.count
               /\ r.val.strings.count = orig.strings.count
               /\ r.val.global_subrs.count = orig.global_subrs.count
               /\ FirstTopDictEntries(r.val) = FirstTopDictEntries(orig)
               /\ \A k \in DOMAIN EntriesOf(orig) :
                      EntriesOf(orig)[k].op \in StringIdOps
                          => ResolvedText(r.val, EntriesOf(orig)[k].args[1])
                                 = ResolvedText(orig, EntriesOf(orig)[k].args[1])

\* C2 witness: an unmodified table was written whose first Top DICT has a Version
\* entry that resolves to a custom string and an entry that is not a string.
C2_Witness ==
    /\ AfterWrite
    /\ nsets = 0
    /\ orig.strings.count = 2
    /\ \E k \in DOMAIN EntriesOf(orig) :
           /\ EntriesOf(orig)[k].op = "Version"
           /\ EntriesOf(orig)[k].args[1] = FirstCustomStringId
           /\ ResolvedText(orig, FirstCustomStringId) = Ok(Txt_2_9)
    /\ HasEntry(orig, "CharstringsOffset")

\* C3: set_top_dict_data never removes or renumbers an existing custom string:
\* every element i of the Strings INDEX before the call holds the same bytes
\* after the call.
C3_ExistingStringsPreserved ==
    AfterSetOk
        => \A i \in 0..(pre.strings.count - 1) :
               /\ get_string_bytes(cff, i).status = "ok"
               /\ get_string_bytes(cff, i).val = get_string_bytes(pre, i).val

\* The text is equal to no standard string and to no custom string of the table.
BrandNew(table, text) ==
    /\ \A id \in StandardStringIds : StandardString(id) # text
    /\ \A i \in 0..(table.strings.count - 1) : IndexGet(table.strings, i) # Ok(text)

\* The TopDictData differs from the one get_top_dict_data returned for table in
\* exactly the named field f, which holds text.
OnlyFieldSet(table, d, f, text) ==
    /\ d[f] = Some(text)
    /\ get_top_dict_data(table).status = "ok"
    /\ get_top_dict_data(table).val[f] # Some(text)
    /\ d = [get_top_dict_data(table).val EXCEPT ![f] = Some(text)]

\* C4: setting a brand-new text in one named field and calling
\* set_top_dict_data appends exactly one element to the Strings INDEX, and the
\* text resolves under StringId 391 + old count.
C4_NewTextAppendsOne ==
    \A f \in EditFields : \A v \in EditValues(f) :
        (/\ AfterSetOk
         /\ nsets = 1
         /\ v.some
         /\ BrandNew(pre, v.val)
         /\ OnlyFieldSet(pre, tdd.val, f, v.val))
            => /\ cff.strings.count = pre.strings.count + 1
               /\ ResolvedText(cff, FirstCustomStringId + pre.strings.count) = Ok(v.val)

\* C5: set_top_dict_data with a TopDictData whose named fields all equal their
\* currently resolved values does not grow the string table: count and data
\* length of the Strings INDEX are unchanged.
C5_UnchangedFieldsNoGrowth ==
    (/\ AfterSetOk
     /\ get_top_dict_data(pre).status = "ok"
     /\ tdd.val = get_top_dict_data(pre).val)
        => /\ cff.strings.count = pre.strings.count
           /\ Len(cff.strings.data) = Len(pre.strings.data)

\* C6: repeated calls do not grow the string table: a call of
\* set_top_dict_data(d) that directly follows a successful call with the same d
\* leaves the Strings INDEX (count, offsets, data) as the first call left it.
C6_RepeatedSetIdempotent ==
    [][(AfterSetOk /\ SetTopDictData /\ last'.status = "ok")
           => cff'.strings = cff.strings]_vars

\* C7: after every successful set_top_dict_data the Strings INDEX is valid: its
\* offsets field holds count + 1 offsets of off_size bytes, the first offset is
\* 1, the offsets do not decrease, and the last offset minus 1 is the data length.
C7_StringsIndexValid == AfterSetOk => ValidIndex(cff.strings)

\* The last entry of the first Top DICT with operator op, <<>> if there is none.
LastEntryWith(table, op) ==
    LET es == EntriesOf(table)
        ks == {k \in DOMAIN es : es[k].op = op}
    IN  IF ks = {} THEN <<>> ELSE <<es[CHOOSE k \in ks : \A j \in ks : j <= k]>>

\* C8: the string fields get_top_dict_data returns are resolved against the
\* Cff's own string table: for an entry with StringId s >= 391 that names an
\* element of self.strings, the field text is the text of element s - 391.
C8_FieldsResolvedAgainstOwnStrings ==
    (AfterGet /\ last.status = "ok")
        => \A op \in StringOps :
               \A e \in {LastEntryWith(cff, op)} :
                   (/\ e # <<>>
                    /\ e[1].args[1] >= FirstCustomStringId
                    /\ e[1].args[1] - FirstCustomStringId < cff.strings.count)
                       => tdd.val[FieldOfOp(op)] = Some(ResolvedText(cff, e[1].args[1]).val)

\* C9: structured access on a Cff without a Top DICT is an error: both
\* get_top_dict_data and set_top_dict_data return Err.
C9_NoTopDictIsError ==
    ((AfterGet \/ AfterSet) /\ cff.top_dicts.count = 0) => last.status = "err"

\* C10: get_top_dict_data fails when a string-valued entry of the first Top
\* DICT has a custom StringId s with s - 391 >= number of custom strings.
C10_UnknownStringIdFails ==
    (/\ AfterGet
     /\ \E k \in DOMAIN EntriesOf(cff) :
            /\ EntriesOf(cff)[k].op \in StringOps
            /\ EntriesOf(cff)[k].args[1] >= FirstCustomStringId
            /\ EntriesOf(cff)[k].args[1] - FirstCustomStringId >= cff.strings.count)
        => last.status # "ok"

\* C11: set_top_dict_data returns Ok for every Cff that has at least one Top
\* DICT and a valid Strings INDEX (zero-length elements allowed), for every
\* TopDictData obtained from get_top_dict_data and then edited in its named
\* string fields.
C11_SetReturnsOk ==
    (/\ AfterSet
     /\ pre.top_dicts.count >= 1
     /\ (pre.strings = EmptyIndex \/ ValidIndex(pre.strings)))
        => last.status = "ok"

\* C12: set_top_dict_data leaves header, names and global_subrs unchanged, and
\* the entries of the first Top DICT that are not named string fields decode
\* to the same variants and values, in the same order, as before the call.
NonStringEntries(table) == SelectSeq(EntriesOf(table), LAMBDA e : e.op \notin StringOps)

C12_SetFrame ==
    AfterSetOk
        => /\ cff.header = pre.header
           /\ cff.names = pre.names
           /\ cff.global_subrs = pre.global_subrs
           /\ FirstTopDictEntries(cff).status = FirstTopDictEntries(pre).status
           /\ NonStringEntries(cff) = NonStringEntries(pre)

\* C12 witness: a successful call changed the Strings INDEX of a table whose
\* first Top DICT holds a CharstringsOffset entry next to a string entry.
C12_Witness ==
    /\ AfterSetOk
    /\ cff.strings # pre.strings
    /\ HasEntry(pre, "CharstringsOffset")
    /\ HasEntry(pre, "Version")
    /\ Len(NonStringEntries(cff)) >= 1

\* C13: the offset width of the Strings INDEX rebuilt by set_top_dict_data is
\* the minimum number of bytes (1 to 4) able to represent its largest offset,
\* which is 1 + the length of the data.
MinOffSize(max_offset) ==
    IF max_offset < 256 THEN 1
    ELSE IF max_offset < 65536 THEN 2
    ELSE IF max_offset < 16777216 THEN 3
    ELSE 4

C13_OffSizeMinimal ==
    AfterSetOk => cff.strings.off_size = MinOffSize(Len(cff.strings.data) + 1)

\* C14: whenever set_top_dict_data produces a Strings INDEX with count 0 (no
\* string kept, no named field set), that INDEX has an empty offsets field and
\* empty data, and it serializes to exactly the 2-byte count field.
C14_EmptyStringsIndex ==
    (/\ AfterSetOk
     /\ cff.strings.count = 0
     /\ UpdatedStrings(tdd.val, 1) = <<>>
     /\ ExistingStringsToKeep(pre, tdd.val, 0, <<>>) = Ok(<<>>))
        => /\ cff.strings.offsets = <<>>
           /\ cff.strings.data = <<>>
           /\ SerializeIndex(cff.strings) = <<0, 0>>

\* C15: get_top_dict_data surfaces decode errors: if the bytes of the first Top
\* DICT do not decode, the call returns Err and the caller gets no TopDictData,
\* not even a partially filled one.
C15_DecodeErrorsSurface ==
    (/\ AfterGet
     /\ IndexGet(cff.top_dicts, 0).status = "ok"
     /\ DictEntries(IndexGet(cff.top_dicts, 0).val).status = "err")
        => /\ last.status = "err"
           /\ tdd = [held |-> FALSE, val |-> TopDictDataNew]

\* C15 witness: get_top_dict_data was called on a table whose first Top DICT
\* holds a well-formed Version entry followed by a truncated operand.
C15_Witness ==
    /\ AfterGet
    /\ IndexGet(cff.top_dicts, 0)
           = Ok(EncodeEntry([op |-> "Version", args |-> <<391>>]) \o <<28, 1>>)
    /\ DictEntries(IndexGet(cff.top_dicts, 0).val).status = "err"

\* C16: write_into emits the header, then the Names INDEX, then the Top DICT
\* INDEX, then the Strings INDEX, then the Global Subr INDEX, each exactly once
\* and in that order; the Strings INDEX emitted is the one the Cff holds, i.e.
\* the one the last successful set_top_dict_data installed.
C16_WriteOrder ==
    AfterWrite
        => LET h == SerializeHeader(cff.header)
               n == SerializeIndex(cff.names)
               t == SerializeIndex(cff.top_dicts)
               s == SerializeIndex(cff.strings)
               g == SerializeIndex(cff.global_subrs)
               p1 == Len(h)
               p2 == p1 + Len(n)
               p3 == p2 + Len(t)
               p4 == p3 + Len(s)
               p5 == p4 + Len(g)
           IN  /\ Len(wire) = p5
               /\ Slice(wire, 0, p1) = h
               /\ Slice(wire, p1, p2) = n
               /\ Slice(wire, p2, p3) = t
               /\ Slice(wire, p3, p4) = s
               /\ Slice(wire, p4, p5) = g

\* C16 witness: a table was written after a successful set_top_dict_data that
\* installed a Strings INDEX different from the loaded one.
C16_Witness ==
    /\ AfterWrite
    /\ nsets >= 1
    /\ cff.top_dicts.count >= 1
    /\ cff.strings # orig.strings
    /\ cff.strings.count >= 1

\* C17 as stated: every decoded entry that holds a StringId of the structured
\* view (Version, Notice, FullName, FamilyName, Weight, Copyright, FontName)
\* goes to a named field, and raw_entries holds exactly the other entries, in
\* decode order.
C17_PartitionWithFontName ==
    (AfterGet /\ last.status = "ok")
        => /\ tdd.val.raw_entries
                  = SelectSeq(EntriesOf(cff), LAMBDA e : e.op \notin StringIdOps)
           /\ \A op \in StringOps : HasEntry(cff, op) <=> tdd.val[FieldOfOp(op)].some

\* C17 amended: the named fields are version, notice, full_name, family_name,
\* weight and copyright.  A field is Some exactly when the first Top DICT has
\* an entry of its operator; every other decoded entry, FontName included, is
\* stored unchanged in raw_entries, in decode order; the raw entries and the
\* entries of the six operators together are all decoded entries.
C17_Partition ==
    (AfterGet /\ last.status = "ok")
        => /\ tdd.val.raw_entries = NonStringEntries(cff)
           /\ \A op \in StringOps : HasEntry(cff, op) <=> tdd.val[FieldOfOp(op)].some
           /\ Len(tdd.val.raw_entries)
                  + Len(SelectSeq(EntriesOf(cff), LAMBDA e : e.op \in StringOps))
                  = Len(EntriesOf(cff))

\* C17 witness: get_top_dict_data returned the view of a Top DICT that holds a
\* CharstringsOffset entry and then a FontName entry, now the two raw entries.
C17_Witness ==
    /\ AfterGet
    /\ last.status = "ok"
    /\ Len(EntriesOf(cff)) = 2
    /\ EntriesOf(cff)[1].op = "CharstringsOffset"
    /\ EntriesOf(cff)[2].op = "FontName"
    /\ Len(tdd.val.raw_entries) = 2

\* The table with only its first Top DICT.
FirstOnly(table) ==
    [table EXCEPT !.top_dicts =
        MakeIndex(<<IndexGet(table.top_dicts, 0).val>>, table.top_dicts.off_size)]

\* C18: the structured view addresses only the first Top DICT: on a Cff with
\* several Top DICTs get_top_dict_data returns what it returns for the table
\* holding element 0 alone, and set_top_dict_data leaves the count of
\* top_dicts and its elements 1..count-1 unchanged.
C18_FirstTopDictOnly ==
    /\ (AfterGet /\ cff.top_dicts.count > 1)
           => /\ last.status = get_top_dict_data(FirstOnly(cff)).status
              /\ last.status = "ok" => tdd.val = get_top_dict_data(FirstOnly(cff)).val
    /\ AfterSetOk
           => /\ cff.top_dicts.count = pre.top_dicts.count
              /\ \A i \in 1..(pre.top_dicts.count - 1) :
                     IndexGet(cff.top_dicts, i) = IndexGet(pre.top_dicts, i)

\* C18 witness: set_top_dict_data succeeded, with the view get_top_dict_data
\* returned, on a table with two Top DICTs whose second one has a Version
\* entry the first one lacks.
C18_Witness ==
    /\ AfterSetOk
    /\ pre.top_dicts.count = 2
    /\ tdd.val.version = None
    /\ tdd.val.family_name.some
    /\ \E k \in DOMAIN DictEntries(IndexGet(pre.top_dicts, 1).val).val :
           DictEntries(IndexGet(pre.top_dicts, 1).val).val[k].op = "Version"

\* The INDEX the last accessor call read.
AfterAccessor == last.op \in {"get_top_dict_bytes", "get_string_bytes"}
AccessedIndex == IF last.op = "get_top_dict_bytes" THEN cff.top_dicts ELSE cff.strings

\* C19: get_top_dict_bytes(i) and get_string_bytes(i) never panic: for every
\* index, count, off_size, offsets bytes and data bytes they return either
\* Ok(slice) or Err.
C19_AccessorsNeverPanic == AfterAccessor => ret.res.status \in {"ok", "err"}

\* C20: for a valid INDEX (first offset 1, offsets non-decreasing, last offset
\* - 1 = length of data) and every i < count, get_top_dict_bytes(i) and
\* get_string_bytes(i) return Ok with exactly data[offsets[i]-1 ..
\* offsets[i+1]-1], the empty slice when the two offsets are equal.
C20_ValidIndexGet ==
    (/\ AfterAccessor
     /\ ValidIndex(AccessedIndex)
     /\ ret.index < AccessedIndex.count)
        => ret.res = Ok(Slice(AccessedIndex.data,
                              OffsetAt(AccessedIndex, ret.index) - 1,
                              OffsetAt(AccessedIndex, ret.index + 1) - 1))

\* C21: get_top_dict_bytes(i) and get_string_bytes(i) return Err whenever
\* i >= count of the INDEX, whatever its off_size, offsets and data hold (in
\* particular for every i when count is 0).
C21_IndexOutOfBoundsIsErr ==
    (AfterAccessor /\ ret.index >= AccessedIndex.count) => ret.res = Err

\* C21 witness: an accessor was called with i = count = 1 on an INDEX whose
\* offsets and data hold a readable element at position 1.
C21_Witness ==
    /\ AfterAccessor
    /\ AccessedIndex = Index1New(1, 1, <<1, 2, 3>>, <<7, 8>>)
    /\ ret.index = 1

AfterResolve == last.op = "resolve_string"

\* C22: resolve_string maps every standard StringId (value < 391) to the entry
\* of the standard-strings table at that position; StringId 390 resolves to
\* the last standard string.
C22_StandardStringsResolve ==
    (AfterResolve /\ ret.index \in StandardStringIds)
        => ret.res = Ok(StandardString(ret.index))

\* C23: resolve_string maps every custom StringId s with
\* 391 <= s < 391 + strings.count of a valid Strings INDEX to the text of
\* element s - 391; StringId 391 resolves to element 0.
C23_CustomStringsResolve ==
    (/\ AfterResolve
     /\ ValidIndex(cff.strings)
     /\ ret.index >= FirstCustomStringId
     /\ ret.index < FirstCustomStringId + cff.strings.count)
        => /\ ret.res.status = "ok"
           /\ ret.res = ResolvedText(cff, ret.index)

\* C24: resolve_string returns Err, without panic, for every StringId
\* s >= 391 + strings.count, in particular for s = 391 + strings.count.
C24_UnknownStringIdIsErr ==
    (AfterResolve /\ ret.index >= FirstCustomStringId + cff.strings.count)
        => ret.res = Err

\* C24 witness: resolve_string was called with s = 391 + count on a Strings
\* INDEX with one element whose offsets and data go on after that element.
C24_Witness ==
    /\ AfterResolve
    /\ cff.strings = Index1New(1, 1, <<1, 2, 3>>, <<7, 8>>)
    /\ ret.index = FirstCustomStringId + 1

AfterReadOffset == last.op = "read_offset"

\* C25: read_offset(bytes, w) returns, for w in 1..4 and a slice of at least w
\* bytes, the big-endian unsigned value of exactly the first w bytes (bytes[0]
\* most significant, result below 256^w), and Err for w = 0 and every w > 4.
C25_ReadOffsetBigEndian ==
    AfterReadOffset
        => /\ (ret.off_size \in 1..4 /\ Len(ret.bytes) >= ret.off_size)
                  => /\ ret.res.status = "ok"
                     /\ ret.res.val >= 0
                     /\ ret.res.val \div (256 ^ (ret.off_size - 1)) < 256
                     /\ \A k \in 1..ret.off_size :
                            (ret.res.val \div (256 ^ (ret.off_size - k))) % 256
                                = ret.bytes[k]
           /\ (ret.off_size = 0 \/ ret.off_size > 4) => ret.res = Err

\* C25 witness: read_offset decoded the first three bytes of the four bytes
\* 01 00 FF 7F as 65791.
C25_Witness ==
    /\ AfterReadOffset
    /\ ret.bytes = <<1, 0, 255, 127>>
    /\ ret.off_size = 3
    /\ ret.res = Ok(65791)

\* The table whose only Top DICT holds the entries es.
WithTopDict(table, es) ==
    [table EXCEPT !.top_dicts = MakeIndex(<<EncodeEntries(es)>>, table.top_dicts.off_size)]

\* C26: duplicate operators follow last-occurrence-wins: for every operator of
\* the first Top DICT the view of get_top_dict_data holds exactly one value,
\* the one of the last occurrence; a named string field holds what it holds
\* for the last occurrence alone, and raw_entries holds one entry of the
\* operator, the last one decoded.
C26_LastOccurrenceWins ==
    (AfterGet /\ last.status = "ok")
        => \A k \in DOMAIN EntriesOf(cff) :
               LET op == EntriesOf(cff)[k].op
                   final == LastEntryWith(cff, op)
               IN  IF op \in StringOps
                       THEN tdd.val[FieldOfOp(op)]
                                = get_top_dict_data(WithTopDict(cff, final)).val[FieldOfOp(op)]
                       ELSE SelectSeq(tdd.val.raw_entries, LAMBDA e : e.op = op) = final

\* C27: no parse-time violation is silently recovered when a CFF2 table is
\* converted to the owned Cff2: if an entry of the Top DICT fails to decode or
\* a global subroutine cannot be read, the conversion reports an error.
C27_Cff2NoSilentRecovery ==
    (/\ last.op = "cff2_from_obj_ref"
     /\ \/ \E k \in DOMAIN DictEntryResults(orig.top_dict_data) :
               DictEntryResults(orig.top_dict_data)[k].status = "err"
        \/ \E i \in 0..(orig.global_subrs.count - 1) :
               IndexGet(orig.global_subrs, i).status = "err")
        => last.status = "err"

\* C28: a set_top_dict_data call that returns Err leaves the table as it was:
\* every field (header, names, top_dicts, strings, global_subrs) is identical
\* to its value before the call.
C28_FailedSetLeavesTableUnchanged ==
    (AfterSet /\ last.status = "err") => cff = pre

\* A call that failed on an unreadable element of a non-empty Strings INDEX of
\* a table that has a Top DICT.
C28_Witness ==
    /\ AfterSet
    /\ last.status = "err"
    /\ pre.top_dicts.count > 0
    /\ pre.strings.count > 0
    /\ cff.strings = pre.strings

\* C29: after a successful set_top_dict_data the data region of the Strings
\* INDEX is the kept strings (the elements whose text equals no value of
\* string_id_to_string, in their original order) followed by the named fields
\* that are Some, in the order version, notice, full_name, family_name, weight,
\* copyright; the offset array is the 3-byte running sums of the lengths,
\* starting at 1.
C29_RebuiltStringsLayout ==
    AfterSetOk =>
        LET n == pre.strings.count
            old(i) == get_string_bytes(pre, i - 1).val
            keptIdx == {i \in 1..n :
                           FromUtf8Lossy(old(i))
                               \notin MapValues(tdd.val.string_id_to_string)}
            someIdx == {k \in 1..6 :
                           tdd.val[<<"version", "notice", "full_name", "family_name",
                                     "weight", "copyright">>[k]].some}
            field(k) == tdd.val[<<"version", "notice", "full_name", "family_name",
                                  "weight", "copyright">>[k]].val
            nk == Cardinality(keptIdx)
            ns == Cardinality(someIdx)
            \* the j-th smallest member of a set of indexes
            nth(S, j) == CHOOSE x \in S : Cardinality({y \in S : y < x}) = j - 1
            written == [j \in 1..(nk + ns) |->
                           IF j <= nk THEN old(nth(keptIdx, j))
                           ELSE field(nth(someIdx, j - nk))]
            sumTo(j) == Len(Concat(SubSeq(written, 1, j)))
        IN  /\ cff.strings.data = Concat(written)
            /\ cff.strings.off_size = 3
            /\ Len(cff.strings.offsets) = 3 * (nk + ns + 1)
            /\ \A j \in 0..(nk + ns) :
                   LET o == 1 + sumTo(j)
                   IN  SubSeq(cff.strings.offsets, 3 * j + 1, 3 * j + 3)
                           = <<o \div 65536, (o \div 256) % 256, o % 256>>

\* A rebuild that keeps one string, removes another and appends two fields.
C29_Witness ==
    /\ AfterSetOk
    /\ pre.strings.count = 2
    /\ \E i \in 0..1 :
           /\ FromUtf8Lossy(get_string_bytes(pre, i).val)
                  \in MapValues(tdd.val.string_id_to_string)
           /\ FromUtf8Lossy(get_string_bytes(pre, 1 - i).val)
                  \notin MapValues(tdd.val.string_id_to_string)
    /\ Len(UpdatedStrings(tdd.val, 1)) = 2
    /\ cff.strings.data # pre.strings.data

\* C30: in every set_top_dict_data call that gets as far as the count,
\* strings.count + (number of Some named fields) - string_id_to_string.len()
\* is not negative, fits in 16 bits, and is the number of strings written to
\* the rebuilt INDEX (kept + appended); the call does not panic and the count
\* stored in the INDEX is that number.
C30_TotalStringsExact ==
    (/\ AfterSet
     /\ pre.top_dicts.count > 0
     /\ ExistingStringsToKeep(pre, tdd.val, 0, <<>>).status = "ok")
        => LET kept == ExistingStringsToKeep(pre, tdd.val, 0, <<>>).val
               updated_strings == UpdatedStrings(tdd.val, 1)
               total_strings == TotalStrings(pre, updated_strings, tdd.val)
           IN  /\ last.status # "panic"
               /\ total_strings >= 0
               /\ total_strings < 65536
               /\ total_strings = Len(kept) + Len(updated_strings)
               /\ last.status = "ok"
                      => cff.strings.count = Len(kept) + Len(updated_strings)

====
